---- MODULE Spec2Model ----
(***************************************************************************)
(* management/dns_update.py: regeneration of the nsd zone files, nsd.conf  *)
(* and the OpenDKIM tables for the domains of a mail server.               *)
(*                                                                         *)
(* Text is modelled at the granularity the code inspects it:               *)
(*   - a file is [exists, text]; text is a sequence of lines;              *)
(*   - a zone-file line is a record [k, t, n]: k the kind of line, t its   *)
(*     string fields, n the digits of a serial number (a digit string is   *)
(*     a sequence over 0..9, so that Python's str comparison, int() and    *)
(*     str() can be computed on it without a machine-integer width);       *)
(*   - other strings (domains, record values, the status string) are TLA+  *)
(*     strings built with \o as the code builds them.                      *)
(***************************************************************************)
EXTENDS Integers, Sequences, FiniteSets, TLC

\* ------------------------------------------------------------ bounds
\* runs of do_dns_update in one behaviour
MaxRuns == 3
\* changes of the environment (env, clock, mail users, DKIM files) in one behaviour
MaxEnvChanges == 1

\* ------------------------------------------------------------ universe
PUBLIC_HOSTNAME == "box.example.com"
IPs == {"203.0.113.5", "203.0.113.9"}
FirstIp == "203.0.113.5"
\* what get_mail_domains(env) may return
MailDomainUniverse == {"box.justtesting.email"}
AllDomains == {PUBLIC_HOSTNAME} \cup MailDomainUniverse
STORAGE_ROOT == "/home/user-data"

\* calendar dates, as the digits of %Y%m%d
Day1 == <<2,0,2,4,0,6,0,1>>
Day2 == <<2,0,2,4,0,6,0,2>>
Dates == {Day1, Day2}

\* the labels of a domain name (the name split at its dots)
Labels(d) ==
  CASE d = "box.example.com"       -> <<"box", "example", "com">>
    [] d = "box.justtesting.email" -> <<"box", "justtesting", "email">>
    [] OTHER                       -> <<d>>

None == "<None>"
NoFile == [exists |-> FALSE, text |-> <<>>]
File(text) == [exists |-> TRUE, text |-> text]

\* ------------------------------------------------------------ digit strings
RECURSIVE StrGE(_, _)
\* Python's a >= b on two str values (lexicographic by character)
StrGE(a, b) ==
  IF b = <<>> THEN TRUE
  ELSE IF a = <<>> THEN FALSE
  ELSE IF a[1] # b[1] THEN a[1] > b[1]
  ELSE StrGE(Tail(a), Tail(b))

RECURSIVE StripZeros(_)
StripZeros(s) ==
  IF Len(s) > 1 /\ s[1] = 0 THEN StripZeros(Tail(s)) ELSE s

\* int(s) of a digit string: the number, kept as its canonical digits
int(s) == StripZeros(s)

RECURSIVE PlusOne(_)
\* n + 1 on canonical digits
PlusOne(n) ==
  IF n = <<>> THEN <<1>>
  ELSE IF n[Len(n)] < 9 THEN SubSeq(n, 1, Len(n) - 1) \o <<n[Len(n)] + 1>>
  ELSE PlusOne(SubSeq(n, 1, Len(n) - 1)) \o <<0>>

\* str(n) of a non-negative number: its canonical digits
str(n) == n

\* the format "%Y%m%d01": serials of a day counted from 01
strftime_from_01(date) == date \o <<0, 1>>

\* time.strftime("%Y%m%d00")
strftime(date) == date \o <<0, 0>>


\* ------------------------------------------------------------ small helpers
RECURSIVE join(_, _)
\* sep.join(items) on a sequence of strings
join(sep, items) ==
  IF items = <<>> THEN ""
  ELSE IF Len(items) = 1 THEN items[1]
  ELSE items[1] \o sep \o join(sep, Tail(items))

\* the orders in which a set can be iterated
Orders(S) ==
  { f \in [1..Cardinality(S) -> S] : \A i, j \in 1..Cardinality(S) : i # j => f[i] # f[j] }

\* urllib.parse.quote(s, safe=''): letters, digits and "_.-~" are never quoted,
\* and a host name holds nothing else, so every label is kept and the dots stay
quote(d) == join(".", Labels(d))

\* ------------------------------------------------------------ build_zone
\* content of STORAGE_ROOT/mail/dkim/mail.txt as opendkim-genkey writes it, in
\* whitespace-separated tokens
GoodDkimText ==
  <<"mail._domainkey", "IN", "TXT", "(", "\"v=DKIM1; k=rsa; p=MIGfMA0G\"", ")", ";",
    "-----", "DKIM", "key", "mail">>
\* a file that is there but is no such record (a truncated write)
BadDkimText == <<"mail._domainkey", "IN">>
DkimTexts == {GoodDkimText, BadDkimText}

\* re.match(r"(\S+)\s+IN\s+TXT\s+(\(.*\))\s*;", text, re.S): the index of the ")"
\* that ends group 2 (the last one followed by ";", .* being greedy), 0 if no match
re_match_dkim(text) ==
  LET ends == { j \in 5..Len(text) - 1 : text[j] = ")" /\ text[j + 1] = ";" }
  IN  IF Len(text) >= 6 /\ text[2] = "IN" /\ text[3] = "TXT" /\ text[4] = "(" /\ ends # {}
      THEN CHOOSE j \in ends : \A k \in ends : k <= j
      ELSE 0

\* base_records without the test of line 68: ns1 and ns2 in every zone
base_records_ns_everywhere(domain, ip) ==
  << <<None,  "NS",  "ns1." \o PUBLIC_HOSTNAME \o ".">>,
     <<None,  "NS",  "ns2." \o PUBLIC_HOSTNAME \o ".">>,
     <<None,  "A",   ip>>,
     <<None,  "MX",  "10 " \o PUBLIC_HOSTNAME \o ".">>,
     <<None,  "TXT", "\"v=spf1 mx -all\"">>,
     <<"www", "A",   ip>>,
     <<"ns1", "A",   ip>>,
     <<"ns2", "A",   ip>> >>

\* lines 60-70: the records every zone gets
base_records(domain, ip) ==
  << <<None,  "NS",  "ns1." \o PUBLIC_HOSTNAME \o ".">>,
     <<None,  "NS",  "ns2." \o PUBLIC_HOSTNAME \o ".">>,
     <<None,  "A",   ip>>,
     <<None,  "MX",  "10 " \o PUBLIC_HOSTNAME \o ".">>,
     <<None,  "TXT", "\"v=spf1 mx -all\"">>,
     <<"www", "A",   ip>> >>
  \o (IF domain = PUBLIC_HOSTNAME
      THEN << <<"ns1", "A", ip>>, <<"ns2", "A", ip>> >>
      ELSE <<>>)

\* dkim_records with lines 81-82 outside the test of line 74: the ADSP and DMARC
\* records in every zone
dkim_records_policy_always(txt) ==
  LET policy == << <<"_adsp._domainkey", "TXT", "\"dkim=all\"">>,
                   <<"_dmarc", "TXT", "\"v=DMARC1; p=quarantine\"">> >>
      j      == IF txt.exists THEN re_match_dkim(txt.text) ELSE 0
  IN  IF ~txt.exists THEN [raised |-> FALSE, records |-> policy]
      ELSE IF j = 0 THEN [raised |-> TRUE, records |-> <<>>]
      ELSE [raised |-> FALSE,
            records |-> << <<txt.text[1], "TXT", join(" ", SubSeq(txt.text, 4, j))>> >> \o policy]

\* lines 72-82: the records added when mail.txt exists; raised when m is None
\* (m.group(1) on None is an AttributeError)
dkim_records(txt) ==
  IF ~txt.exists THEN [raised |-> FALSE, records |-> <<>>]
  ELSE LET j == re_match_dkim(txt.text)
       IN  IF j = 0 THEN [raised |-> TRUE, records |-> <<>>]
           ELSE [raised |-> FALSE,
                 records |->
                   << <<txt.text[1], "TXT", join(" ", SubSeq(txt.text, 4, j))>>,
                      <<"_adsp._domainkey", "TXT", "\"dkim=all\"">>,
                      <<"_dmarc", "TXT", "\"v=DMARC1; p=quarantine\"">> >>]

\* build_zone(domain, env) with env's PUBLIC_IP and the mail.txt file it reads
build_zone(domain, ip, txt) ==
  LET d == dkim_records(txt)
  IN  [raised |-> d.raised,
       records |-> IF d.raised THEN <<>> ELSE base_records(domain, ip) \o d.records]

\* ------------------------------------------------------------ write_nsd_zone
StdGap == "     "
Text(fields) == [k |-> "text", t |-> fields, n |-> <<>>]
\* the line "__SERIAL__<gap>; serial number"
PlaceholderLine(gap) == [k |-> "__SERIAL__", t |-> <<gap>>, n |-> <<>>]
\* the line "<digits><gap>; serial number"
SerialLine(digits, gap) == [k |-> "serial", t |-> <<gap>>, n |-> digits]
RRLine(r) == [k |-> "rr", t |-> <<IF r[1] = None THEN "" ELSE r[1], r[2], r[3]>>, n |-> <<>>]

\* lines 92-113: the template with its replacement strings, then the records
render_zone(domain, records) ==
  << Text(<<"$ORIGIN", domain>>),
     Text(<<"$TTL", "86400">>),
     Text(<<"SOA", "ns1." \o PUBLIC_HOSTNAME \o ".", "hostmaster." \o PUBLIC_HOSTNAME \o ".">>),
     PlaceholderLine(StdGap),
     Text(<<"28800", "7200", "864000", "86400">>) >>
  \o [i \in 1..Len(records) |-> RRLine(records[i])]

\* re.search(r"(\d+)\s*;\s*serial number", text): the first matching line, 0 if none
re_search_serial(text) ==
  LET hits == { i \in 1..Len(text) : text[i].k = "serial" /\ text[i].n # <<>> }
  IN  IF hits = {} THEN 0 ELSE CHOOSE i \in hits : \A j \in hits : i <= j

\* text.replace(m.group(0), "__SERIAL__     ; serial number"): every occurrence
replace_match(text, m) ==
  [i \in 1..Len(text) |-> IF text[i] = text[m] THEN PlaceholderLine(StdGap) ELSE text[i]]

\* the zone text with the placeholder left in place
replace_placeholder_noop(text, serial) == text

\* zone.replace("__SERIAL__", serial): every occurrence
replace_placeholder(text, serial) ==
  [i \in 1..Len(text) |->
     IF text[i].k = "__SERIAL__" THEN SerialLine(serial, text[i].t[1]) ELSE text[i]]

\* line 133: existing_serial >= serial, on two str values
serial_not_less(existing_serial, serial) == StrGE(existing_serial, serial)

\* lines 132-134
next_serial(existing_serial, serial) ==
  IF serial_not_less(existing_serial, serial)
  THEN str(PlusOne(int(existing_serial)))
  ELSE serial

\* write_nsd_zone that compares the serial as well: a zone file with an older
\* serial than today's is rewritten though nothing else differs
write_nsd_zone_dated(domain, file, records, date) ==
  LET zone   == render_zone(domain, records)
      serial == strftime(date)
      m      == IF file.exists THEN re_search_serial(file.text) ELSE 0
  IN  IF m # 0 /\ zone = replace_match(file.text, m) /\ serial_not_less(file.text[m].n, serial)
      THEN [changed |-> FALSE, file |-> file]
      ELSE [changed |-> TRUE,
            file |-> File(replace_placeholder(zone,
                       IF m # 0 THEN next_serial(file.text[m].n, serial) ELSE serial))]

\* write_nsd_zone(domain, zonefile, records, env) on the file at zonefile, on a
\* day `date`: the returned flag and the file afterwards
write_nsd_zone(domain, file, records, date) ==
  LET zone   == render_zone(domain, records)
      serial == strftime(date)
      m      == IF file.exists THEN re_search_serial(file.text) ELSE 0
  IN  IF m # 0 /\ zone = replace_match(file.text, m)
      THEN [changed |-> FALSE, file |-> file]
      ELSE [changed |-> TRUE,
            file |-> File(replace_placeholder(zone,
                       IF m # 0 THEN next_serial(file.text[m].n, serial) ELSE serial))]


\* ------------------------------------------------------------ write_nsd_conf
\* lines 147-165: the head, then one stanza per (domain, zonefile) in order
nsdconf_text(zonefiles) ==
  << <<"server:", "hide-version: yes", "identity: \"\"", "zonesdir: \"/etc/nsd/zones\"">> >>
  \o [i \in 1..Len(zonefiles) |-> <<"zone:", "name: " \o zonefiles[i][1], "zonefile: " \o zonefiles[i][2]>>]

\* write_nsd_conf(zonefiles) on the file at /etc/nsd/nsd.conf: open() of a missing
\* file raises; the returned flag and the file afterwards
write_nsd_conf(zonefiles, file) ==
  IF ~file.exists THEN [raised |-> TRUE, changed |-> FALSE, file |-> file]
  ELSE IF file.text = nsdconf_text(zonefiles)
       THEN [raised |-> FALSE, changed |-> FALSE, file |-> file]
       ELSE [raised |-> FALSE, changed |-> TRUE, file |-> File(nsdconf_text(zonefiles))]

\* ------------------------------------------------------------ write_opendkim_tables
opendkim_key_file == STORAGE_ROOT \o "/" \o "mail/dkim/mail.private"

\* line 198, line 204: one line of each table
keytable_line(domain) == domain \o " " \o domain \o ":mail:" \o opendkim_key_file
signingtable_line(domain) == "*@" \o domain \o " " \o domain

\* write_opendkim_tables opening the files with "a": the lines are added to what is there
write_opendkim_tables_append(zonefiles, key_exists, tables) ==
  IF ~key_exists THEN tables
  ELSE [KeyTable     |-> File(tables.KeyTable.text \o
                              [i \in 1..Len(zonefiles) |-> keytable_line(zonefiles[i][1])]),
        SigningTable |-> File(tables.SigningTable.text \o
                              [i \in 1..Len(zonefiles) |-> signingtable_line(zonefiles[i][1])])]

\* write_opendkim_tables(zonefiles, env): the two files afterwards, given whether
\* mail.private exists; the files hold their lines joined by "\n"
write_opendkim_tables(zonefiles, key_exists, tables) ==
  IF ~key_exists THEN tables
  ELSE [KeyTable     |-> File([i \in 1..Len(zonefiles) |-> keytable_line(zonefiles[i][1])]),
        SigningTable |-> File([i \in 1..Len(zonefiles) |-> signingtable_line(zonefiles[i][1])])]

\* ------------------------------------------------------------ justtestingdotemail
\* domain.endswith(".justtesting.email")
endswith_justtesting(domain) ==
  LET l == Labels(domain)
  IN  Len(l) >= 3 /\ l[Len(l) - 1] = "justtesting" /\ l[Len(l)] = "email"

\* lines 221-237: the records for which the dns4e API is called
RECURSIVE api_calls(_)
api_calls(records) ==
  IF records = <<>> THEN <<>>
  ELSE LET r == Head(records)
       IN  (IF r[2] # "NS" /\ r[1] \notin {"www", "ns1", "ns2"} /\ r[2] = "TXT"
            THEN <<r>> ELSE <<>>) \o api_calls(Tail(records))

\* whether justtestingdotemail(domain, records) reaches subprocess.check_output,
\* which raises when curl fails or answers no JSON
notifier_calls_out(domain, records) ==
  endswith_justtesting(domain) /\ api_calls(records) # <<>>

\* ------------------------------------------------------------ do_dns_update
\* line 22
zonefile_name(domain) == quote(domain) \o ".txt"

\* lines 34-38 without the test of line 37
after_conf_always(changed, updated) ==
  IF changed THEN Append(updated, "DNS configuration") ELSE updated

\* lines 34-38: updated_domains after write_nsd_conf returned `changed`
after_conf(changed, updated) ==
  IF changed /\ Len(updated) = 0 THEN Append(updated, "DNS configuration") ELSE updated

\* line 41 with the bound off by one
nsd_kicked_off_by_one(updated) == Len(updated) > 1

\* line 41: whether nsd is restarted
nsd_kicked(updated) == Len(updated) > 0

\* lines 50-54
status_string(updated_domains) ==
  IF Len(updated_domains) = 0 THEN "" ELSE "updated: " \o join(",", updated_domains) \o "\n"


\* ------------------------------------------------------------ state
VARIABLES
  publicIp,        \* env["PUBLIC_IP"]
  mailDomains,     \* what get_mail_domains(env) returns
  mailTxt,         \* the file STORAGE_ROOT/mail/dkim/mail.txt
  mailPrivate,     \* whether STORAGE_ROOT/mail/dkim/mail.private exists
  zones,           \* the files of /etc/nsd/zones, by domain
  nsdConf,         \* the file /etc/nsd/nsd.conf
  tables,          \* the files /etc/opendkim/KeyTable and SigningTable
  pc,              \* where do_dns_update stands ("idle": not running)
  today,           \* the day the run's clock shows
  zonefiles,       \* do_dns_update's zonefiles
  idx,             \* position of the loop of line 27 in zonefiles
  updated_domains, \* do_dns_update's updated_domains
  records,         \* by domain, the records build_zone returned in this run
  outcome,         \* how the last run ended: "none" (it has not), "returned", or
                   \* the exception that left it
  result,          \* the string the last run returned
  log,             \* the file and service operations of this run, in order
  zones0,          \* zones as the run found them
  nsdConf0,        \* nsdConf as the run found it
  tables0,         \* tables as the run found them
  quiet,           \* the last run returned and nothing outside changed since
  second,          \* this run started in a quiet state
  before,          \* how the run before this one ended
  unloaded,        \* a zone file was written since nsd was last restarted
  runs,            \* runs started
  envChanges       \* outside changes made

envVars == <<publicIp, mailDomains, mailTxt, mailPrivate>>
fsVars  == <<zones, nsdConf, tables>>
runVars == <<today, zonefiles, idx, updated_domains, records, outcome, result, log,
             zones0, nsdConf0, tables0, second, before, runs>>
vars    == <<envVars, fsVars, runVars, pc, quiet, unloaded, envChanges>>

Event(op, arg, changed) == [op |-> op, arg |-> arg, changed |-> changed]

\* ------------------------------------------------------------ initial files
\* serial numbers a zone file found on the first run may carry
ShortSerial    == <<9, 9, 9>>
RolloverSerial == <<2,0,2,4,0,6,0,1,9,9>>
LongSerial     == <<1,0,0,0,0,0,0,0,0,0,0>>

ZoneSeeds == {"none", "noserial", "short", "rollover", "long", "gap"}

\* a zone file as an earlier run (PUBLIC_IP = FirstIp, no DKIM) or an operator left it
SeedZone(seed, d) ==
  LET zone == render_zone(d, base_records(d, FirstIp))
  IN  CASE seed = "none"     -> NoFile
        [] seed = "noserial" -> File(<<Text(<<"$ORIGIN", d>>), Text(<<"; to be generated">>)>>)
        [] seed = "short"    -> File(replace_placeholder(zone, ShortSerial))
        [] seed = "rollover" -> File(replace_placeholder(zone, RolloverSerial))
        [] seed = "long"     -> File(replace_placeholder(zone, LongSerial))
        [] seed = "gap"      -> File([i \in 1..Len(zone) |->
                                  IF zone[i].k = "__SERIAL__"
                                  THEN SerialLine(strftime(Day1), " ") ELSE zone[i]])

PackagedConf == File(<< <<"server:", "# nsd.conf as packaged">> >>)
OldTables ==
  [KeyTable     |-> File(<<"old.example old.example:mail:/old/mail.private">>),
   SigningTable |-> File(<<"*@old.example old.example">>)]
NoTables == [KeyTable |-> NoFile, SigningTable |-> NoFile]

\* /etc before the first run: nsd.conf missing, or packaged with or without tables
SysSeeds == { <<NoFile, NoTables>>, <<PackagedConf, NoTables>>, <<PackagedConf, OldTables>> }

Init ==
  /\ publicIp = FirstIp
  /\ mailDomains \in SUBSET MailDomainUniverse
  /\ mailTxt = NoFile
  /\ mailPrivate = FALSE
  /\ \E seed \in ZoneSeeds : zones = [d \in AllDomains |-> SeedZone(seed, d)]
  /\ \E sys \in SysSeeds : nsdConf = sys[1] /\ tables = sys[2]
  /\ pc = "idle"
  /\ today = Day1
  /\ zonefiles = <<>>
  /\ idx = 1
  /\ updated_domains = <<>>
  /\ records = [d \in AllDomains |-> <<>>]
  /\ outcome = "none"
  /\ result = ""
  /\ log = <<>>
  /\ zones0 = zones
  /\ nsdConf0 = nsdConf
  /\ tables0 = tables
  /\ quiet = FALSE
  /\ second = FALSE
  /\ before = "none"
  /\ unloaded = FALSE
  /\ runs = 0
  /\ envChanges = 0

\* ------------------------------------------------------------ the outside
Outside ==
  /\ pc = "idle"
  /\ runs < MaxRuns
  /\ envChanges < MaxEnvChanges
  /\ envChanges' = envChanges + 1
  /\ quiet' = FALSE
  /\ UNCHANGED <<fsVars, runVars, pc, unloaded>>

\* the box moves to another address
SetPublicIp ==
  /\ Outside
  /\ publicIp' \in IPs \ {publicIp}
  /\ UNCHANGED <<mailDomains, mailTxt, mailPrivate>>

\* mail users or aliases are added or removed
SetMailDomains ==
  /\ Outside
  /\ mailDomains' \in (SUBSET MailDomainUniverse) \ {mailDomains}
  /\ UNCHANGED <<publicIp, mailTxt, mailPrivate>>

\* the DKIM key files are provisioned, damaged or removed
SetDkimFiles ==
  /\ Outside
  /\ mailTxt' \in {NoFile} \cup {File(t) : t \in DkimTexts}
  /\ mailPrivate' \in BOOLEAN
  /\ <<mailTxt', mailPrivate'>> # <<mailTxt, mailPrivate>>
  /\ UNCHANGED <<publicIp, mailDomains>>

\* ------------------------------------------------------------ do_dns_update
\* an exception leaves do_dns_update: nothing after the raising line runs
Raise(exception) ==
  /\ pc' = "idle"
  /\ outcome' = exception
  /\ UNCHANGED <<result, quiet>>

\* Start that also clears /etc/nsd/zones of the files of domains no longer served
Start_cleanup ==
  /\ pc = "idle"
  /\ runs < MaxRuns
  /\ runs' = runs + 1
  /\ today' \in Dates
  /\ \E order \in Orders({PUBLIC_HOSTNAME} \cup mailDomains) :
       zonefiles' = [i \in 1..Len(order) |-> <<order[i], zonefile_name(order[i])>>]
  /\ idx' = 1
  /\ updated_domains' = <<>>
  /\ records' = [d \in AllDomains |-> <<>>]
  /\ outcome' = "none"
  /\ result' = ""
  /\ log' = <<Event("makedirs", "/etc/nsd/zones", FALSE)>>
  /\ zones0' = zones
  /\ nsdConf0' = nsdConf
  /\ tables0' = tables
  /\ second' = quiet
  /\ before' = outcome
  /\ quiet' = FALSE
  /\ pc' = "zones"
  /\ zones' = [d \in AllDomains |->
                 IF d \in {PUBLIC_HOSTNAME} \cup mailDomains THEN zones[d] ELSE NoFile]
  /\ UNCHANGED <<envVars, nsdConf, tables, unloaded, envChanges>>

\* lines 10-26: the domain set, iterated in some order; makedirs; updated_domains = []
Start ==
  /\ pc = "idle"
  /\ runs < MaxRuns
  /\ runs' = runs + 1
  /\ today' \in Dates
  /\ \E order \in Orders({PUBLIC_HOSTNAME} \cup mailDomains) :
       zonefiles' = [i \in 1..Len(order) |-> <<order[i], zonefile_name(order[i])>>]
  /\ idx' = 1
  /\ updated_domains' = <<>>
  /\ records' = [d \in AllDomains |-> <<>>]
  /\ outcome' = "none"
  /\ result' = ""
  /\ log' = <<Event("makedirs", "/etc/nsd/zones", FALSE)>>
  /\ zones0' = zones
  /\ nsdConf0' = nsdConf
  /\ tables0' = tables
  /\ second' = quiet
  /\ before' = outcome
  /\ quiet' = FALSE
  /\ pc' = "zones"
  /\ UNCHANGED <<envVars, fsVars, unloaded, envChanges>>

\* the loop of lines 27-31 with the makedirs of line 25 inside it, once per file
ZoneLoop_makedirs_each ==
  /\ pc = "zones"
  /\ LET domain == zonefiles[idx][1]
         b      == build_zone(domain, publicIp, mailTxt)
         w      == write_nsd_zone(domain, zones[domain], b.records, today)
     IN  IF b.raised
         THEN /\ Raise("AttributeError in build_zone")
              /\ UNCHANGED <<zones, records, log, updated_domains, idx, unloaded>>
         ELSE /\ zones' = [zones EXCEPT ![domain] = w.file]
              /\ records' = [records EXCEPT ![domain] = b.records]
              /\ log' = Append(Append(log, Event("makedirs", "/etc/nsd/zones", FALSE)),
                               Event("write_nsd_zone", domain, w.changed))
              /\ unloaded' = (unloaded \/ w.changed)
              /\ \E curl_ok \in BOOLEAN :
                   /\ ~curl_ok => w.changed /\ notifier_calls_out(domain, b.records)
                   /\ IF curl_ok
                      THEN /\ updated_domains' =
                                IF w.changed THEN Append(updated_domains, domain)
                                ELSE updated_domains
                           /\ idx' = idx + 1
                           /\ pc' = IF idx = Len(zonefiles) THEN "conf" ELSE "zones"
                           /\ UNCHANGED <<outcome, result, quiet>>
                      ELSE /\ Raise("CalledProcessError in justtestingdotemail")
                           /\ UNCHANGED <<updated_domains, idx>>
  /\ UNCHANGED <<envVars, nsdConf, tables, today, zonefiles, zones0, nsdConf0, tables0, second,
                 before, runs, envChanges>>

\* lines 27-31: one turn of the loop
ZoneLoop ==
  /\ pc = "zones"
  /\ LET domain == zonefiles[idx][1]
         b      == build_zone(domain, publicIp, mailTxt)
         w      == write_nsd_zone(domain, zones[domain], b.records, today)
     IN  IF b.raised
         THEN /\ Raise("AttributeError in build_zone")
              /\ UNCHANGED <<zones, records, log, updated_domains, idx, unloaded>>
         ELSE /\ zones' = [zones EXCEPT ![domain] = w.file]
              /\ records' = [records EXCEPT ![domain] = b.records]
              /\ log' = Append(log, Event("write_nsd_zone", domain, w.changed))
              /\ unloaded' = (unloaded \/ w.changed)
              /\ \E curl_ok \in BOOLEAN :
                   /\ ~curl_ok => w.changed /\ notifier_calls_out(domain, b.records)
                   /\ IF curl_ok
                      THEN /\ updated_domains' =
                                IF w.changed THEN Append(updated_domains, domain)
                                ELSE updated_domains
                           /\ idx' = idx + 1
                           /\ pc' = IF idx = Len(zonefiles) THEN "conf" ELSE "zones"
                           /\ UNCHANGED <<outcome, result, quiet>>
                      ELSE /\ Raise("CalledProcessError in justtestingdotemail")
                           /\ UNCHANGED <<updated_domains, idx>>
  /\ UNCHANGED <<envVars, nsdConf, tables, today, zonefiles, zones0, nsdConf0, tables0, second,
                 before, runs, envChanges>>

\* lines 33-38
NsdConf ==
  /\ pc = "conf"
  /\ LET c == write_nsd_conf(zonefiles, nsdConf)
     IN  IF c.raised
         THEN /\ Raise("FileNotFoundError in write_nsd_conf")
              /\ UNCHANGED <<nsdConf, log, updated_domains>>
         ELSE /\ nsdConf' = c.file
              /\ log' = Append(log, Event("write_nsd_conf", "/etc/nsd/nsd.conf", c.changed))
              /\ updated_domains' = after_conf(c.changed, updated_domains)
              /\ pc' = "kick_nsd"
              /\ UNCHANGED <<outcome, result, quiet>>
  /\ UNCHANGED <<envVars, zones, tables, today, zonefiles, idx, records, zones0, nsdConf0, tables0,
                 second, before, runs, unloaded, envChanges>>

\* what os.system(command) may return: the command's exit status, which
\* do_dns_update drops; os.system raises nothing when the command fails
ExitStatuses == {"exit 0", "exit 1"}

\* lines 40-42
KickNsd ==
  /\ pc = "kick_nsd"
  /\ IF nsd_kicked(updated_domains)
     THEN /\ \E status \in ExitStatuses :
               log' = Append(log, Event("service nsd restart", status, FALSE))
          /\ unloaded' = FALSE
     ELSE UNCHANGED <<log, unloaded>>
  /\ pc' = "tables"
  /\ UNCHANGED <<envVars, fsVars, today, zonefiles, idx, updated_domains, records, outcome,
                 result, zones0, nsdConf0, tables0, second, before, runs, quiet, envChanges>>

\* lines 44-45
OpendkimTables ==
  /\ pc = "tables"
  /\ tables' = write_opendkim_tables(zonefiles, mailPrivate, tables)
  /\ log' = Append(log, Event("write_opendkim_tables", "/etc/opendkim", mailPrivate))
  /\ pc' = "kick_opendkim"
  /\ UNCHANGED <<envVars, zones, nsdConf, today, zonefiles, idx, updated_domains, records,
                 outcome, result, zones0, nsdConf0, tables0, second, before, runs, quiet, unloaded,
                 envChanges>>

\* lines 47-54
KickOpendkim ==
  /\ pc = "kick_opendkim"
  /\ \E status \in ExitStatuses :
       log' = Append(log, Event("service opendkim restart", status, FALSE))
  /\ result' = status_string(updated_domains)
  /\ outcome' = "returned"
  /\ quiet' = TRUE
  /\ pc' = "idle"
  /\ UNCHANGED <<envVars, fsVars, today, zonefiles, idx, updated_domains, records,
                 zones0, nsdConf0, tables0, second, before, runs, unloaded, envChanges>>

Next ==
  \/ SetPublicIp
  \/ SetMailDomains
  \/ SetDkimFiles
  \/ Start
  \/ ZoneLoop
  \/ NsdConf
  \/ KickNsd
  \/ OpendkimTables
  \/ KickOpendkim

Spec == Init /\ [][Next]_vars


\* ------------------------------------------------------------ reading the state
Returned == pc = "idle" /\ outcome = "returned"
Running  == pc # "idle"

\* a >= b and a > b on two numbers given by their canonical digits
NumGE(a, b) ==
  IF Len(a) # Len(b) THEN Len(a) > Len(b) ELSE StrGE(a, b)
NumGT(a, b) == NumGE(a, b) /\ a # b

\* the serial number a reader finds in a zone file (<<>> if none)
HasSerial(file) == file.exists /\ re_search_serial(file.text) # 0
SerialOf(file) == IF HasSerial(file) THEN file.text[re_search_serial(file.text)].n ELSE <<>>
\* a zone file's text with the digits of its serial lines taken out
SerialNeutral(file) ==
  [i \in 1..Len(file.text) |->
     IF file.text[i].k = "serial" THEN PlaceholderLine(file.text[i].t[1]) ELSE file.text[i]]

\* the files this run has written so far
ZoneWritten(d) == \E i \in 1..Len(log) : log[i] = Event("write_nsd_zone", d, TRUE)
ZoneTurned(d)  == \E i \in 1..Len(log) : log[i].op = "write_nsd_zone" /\ log[i].arg = d
ConfWritten    == \E i \in 1..Len(log) : log[i] = Event("write_nsd_conf", "/etc/nsd/nsd.conf", TRUE)
Count(op)      == Cardinality({ i \in 1..Len(log) : log[i].op = op })

\* the domains of this run whose zone file was written, in processing order
RECURSIVE WrittenInOrder(_)
WrittenInOrder(zf) ==
  IF zf = <<>> THEN <<>>
  ELSE (IF ZoneWritten(zf[1][1]) THEN <<zf[1][1]>> ELSE <<>>) \o WrittenInOrder(Tail(zf))

C2_SecondRunNoOp ==
  (Returned /\ second) =>
    /\ \A d \in AllDomains : ~ZoneWritten(d) /\ zones[d] = zones0[d]
    /\ ~ConfWritten /\ nsdConf = nsdConf0
    /\ Count("service nsd restart") = 0
    /\ result = ""

\* ------------------------------------------------------------ C3
\* C3: a run that returns has restarted nsd exactly once if it wrote a zone file or
\* nsd.conf and not at all otherwise, and has restarted opendkim exactly once.
C3_Reloads ==
  Returned =>
    /\ Count("service nsd restart") =
         IF (\E d \in AllDomains : zones[d] # zones0[d]) \/ nsdConf # nsdConf0 THEN 1 ELSE 0
    /\ Count("service opendkim restart") = 1

\* a run returned having written a zone file, and one nsd restart is in its log
C3_Witness ==
  /\ Returned
  /\ \E d \in AllDomains : zones[d] # zones0[d]
  /\ Count("service nsd restart") = 1
  /\ Count("service opendkim restart") = 1

\* ------------------------------------------------------------ C4
\* C4: the returned string is empty iff the run wrote no zone file and not
\* nsd.conf; otherwise it is "updated: ", the comma-joined list and a newline,
\* the list being the domains whose zone file the run wrote, once each in
\* processing order, or the one entry "DNS configuration" when only nsd.conf was
\* written (so that entry never stands beside a domain).
C4_StatusString ==
  Returned =>
    LET written == WrittenInOrder(zonefiles)
        nothing == (\A d \in AllDomains : zones[d] = zones0[d]) /\ nsdConf = nsdConf0
    IN  /\ (result = "") <=> nothing
        /\ \A d \in AllDomains : ZoneWritten(d) <=> zones[d] # zones0[d]
        /\ written # <<>> => result = "updated: " \o join(",", written) \o "\n"
        /\ (written = <<>> /\ ~nothing) => result = "updated: DNS configuration\n"

\* a run returned having written nsd.conf and, with it, a zone file
C4_Witness ==
  /\ Returned
  /\ nsdConf # nsdConf0
  /\ Len(WrittenInOrder(zonefiles)) = 2
  /\ result = "updated: box.justtesting.email,box.example.com\n"

\* ------------------------------------------------------------ C5
\* C5: when write_nsd_zone finds a zone file with a parseable serial and other
\* content than the new render, the serial it writes is the existing serial + 1
\* if the existing serial is >= today's YYYYMMDD00, and YYYYMMDD00 otherwise;
\* 2024060199 on 2024-06-01 gives 2024060200.
C5_NextSerial ==
  \A d \in AllDomains :
    (ZoneWritten(d) /\ HasSerial(zones0[d])) =>
      LET existing  == int(SerialOf(zones0[d]))
          candidate == strftime(today)
      IN  /\ SerialOf(zones[d]) =
               IF NumGE(existing, int(candidate)) THEN PlusOne(existing) ELSE candidate
          /\ (existing = RolloverSerial /\ today = Day1) =>
               SerialOf(zones[d]) = <<2,0,2,4,0,6,0,2,0,0>>

\* ------------------------------------------------------------ C6
\* C6: write_nsd_zone decides between incrementing and the fresh serial by the
\* numeric value of the two digit strings: whatever the length of the existing
\* serial, it increments exactly when int(existing) >= int(candidate).
\* (Where existing + 1 is the candidate the written serial tells nothing.)
C6_NumericComparison ==
  \A d \in AllDomains :
    (ZoneWritten(d) /\ HasSerial(zones0[d])) =>
      LET existing  == int(SerialOf(zones0[d]))
          candidate == int(strftime(today))
      IN  PlusOne(existing) # candidate =>
            ((SerialOf(zones[d]) = PlusOne(existing)) <=> NumGE(existing, candidate))


\* ------------------------------------------------------------ C7
\* C7: without a mail.txt, build_zone returns for every domain exactly NS ns1, NS
\* ns2, A root, MX 10, TXT SPF, A www, in this order, followed by A ns1 and A ns2
\* iff the domain is the public hostname: 8 records there, 6 elsewhere.
C7_BuildZone ==
  (Running /\ ~mailTxt.exists) =>
    \A d \in AllDomains :
      LET common == << <<None,  "NS",  "ns1.box.example.com.">>,
                       <<None,  "NS",  "ns2.box.example.com.">>,
                       <<None,  "A",   publicIp>>,
                       <<None,  "MX",  "10 box.example.com.">>,
                       <<None,  "TXT", "\"v=spf1 mx -all\"">>,
                       <<"www", "A",   publicIp>> >>
          own    == << <<"ns1", "A", publicIp>>, <<"ns2", "A", publicIp>> >>
      IN  ZoneTurned(d) =>
            /\ records[d] = IF d = "box.example.com" THEN common \o own ELSE common
            /\ Len(records[d]) = IF d = "box.example.com" THEN 8 ELSE 6

\* a run without mail.txt has built the records of the public hostname and of
\* another domain
C7_Witness ==
  /\ Running /\ ~mailTxt.exists
  /\ ZoneTurned("box.example.com") /\ Len(records["box.example.com"]) = 8
  /\ ZoneTurned("box.justtesting.email") /\ Len(records["box.justtesting.email"]) = 6

\* ------------------------------------------------------------ C8
\* a TXT record other than the SPF one: the DKIM key, ADSP or DMARC
DkimRelated(r) == r[2] = "TXT" /\ r # <<None, "TXT", "\"v=spf1 mx -all\"">>
NoDkimRecords == \A d \in AllDomains : \A i \in 1..Len(records[d]) : ~DkimRelated(records[d][i])
TablesWritten == \E i \in 1..Len(log) : log[i].op = "write_opendkim_tables" /\ log[i].changed

\* C8, as claimed: in a run without mail.txt no domain's records hold a DKIM, ADSP
\* or DMARC record, and the run neither writes nor changes KeyTable and
\* SigningTable, whatever the other files are (mail.private among them).
C8_DkimGating_AsClaimed ==
  (pc = "kick_opendkim" /\ ~mailTxt.exists) =>
    NoDkimRecords /\ ~TablesWritten /\ tables = tables0

\* C8, amended: in a run without mail.txt no domain's records hold a DKIM, ADSP or
\* DMARC record; the run neither writes nor changes KeyTable and SigningTable
\* provided mail.private is missing as well.
C8_DkimGating ==
  (pc = "kick_opendkim" /\ ~mailTxt.exists) =>
    /\ NoDkimRecords
    /\ ~mailPrivate => (~TablesWritten /\ tables = tables0)

\* a run without mail.txt and mail.private has passed write_opendkim_tables with
\* tables on the disk and the records of two domains built
C8_Witness ==
  /\ pc = "kick_opendkim" /\ ~mailTxt.exists /\ ~mailPrivate
  /\ tables = OldTables
  /\ \A d \in AllDomains : Len(records[d]) >= 6

\* ------------------------------------------------------------ C9
\* C9: write_opendkim_tables leaves KeyTable and SigningTable as they are when
\* mail.private is missing; when it exists both are overwritten, whatever they
\* held, with one line per domain of the run: "<domain> <domain>:mail:<key file>"
\* and "*@<domain> <domain>".
C9_OpendkimTables ==
  pc = "kick_opendkim" =>
    LET domains == {PUBLIC_HOSTNAME} \cup mailDomains
        KeyLine(d) ==
          CASE d = "box.example.com" ->
                 "box.example.com box.example.com:mail:/home/user-data/mail/dkim/mail.private"
            [] d = "box.justtesting.email" ->
                 "box.justtesting.email box.justtesting.email:mail:/home/user-data/mail/dkim/mail.private"
        SigningLine(d) ==
          CASE d = "box.example.com"       -> "*@box.example.com box.example.com"
            [] d = "box.justtesting.email" -> "*@box.justtesting.email box.justtesting.email"
        Lines(f) == { f.text[i] : i \in 1..Len(f.text) }
    IN  IF ~mailPrivate
        THEN tables = tables0 /\ ~TablesWritten
        ELSE /\ TablesWritten
             /\ tables.KeyTable.exists /\ tables.SigningTable.exists
             /\ Len(tables.KeyTable.text) = Cardinality(domains)
             /\ Len(tables.SigningTable.text) = Cardinality(domains)
             /\ Lines(tables.KeyTable) = { KeyLine(d) : d \in domains }
             /\ Lines(tables.SigningTable) = { SigningLine(d) : d \in domains }
             /\ \A i \in 1..Len(zonefiles) :
                  /\ tables.KeyTable.text[i] = KeyLine(zonefiles[i][1])
                  /\ tables.SigningTable.text[i] = SigningLine(zonefiles[i][1])

\* with mail.private there, write_opendkim_tables has replaced older tables by the
\* lines of two domains
C9_Witness ==
  /\ pc = "kick_opendkim" /\ mailPrivate
  /\ tables0 = OldTables /\ tables # tables0
  /\ Len(zonefiles) = 2 /\ Len(tables.KeyTable.text) = 2

\* ------------------------------------------------------------ C10
\* C10: a mail.txt that is there but does not match "<selector> IN TXT (<value>);"
\* makes build_zone leave out the DKIM, ADSP and DMARC records and does not crash
\* the run: no run ends in build_zone, and every domain the run has turned to has
\* its records, without those three.
C10_BadDkimFileOmitted ==
  /\ outcome # "AttributeError in build_zone"
  /\ (Running /\ mailTxt.exists /\ re_match_dkim(mailTxt.text) = 0) =>
       /\ \A d \in AllDomains : ZoneTurned(d) => Len(records[d]) >= 6
       /\ NoDkimRecords


\* ------------------------------------------------------------ C11
\* C11: a failure of the notifier (justtestingdotemail) never leaves
\* do_dns_update: no run ends with its exception, and a domain whose zone file
\* the run has written is in updated_domains once its turn of the loop is over
\* (so the other domains follow and nsd is restarted).
C11_NotifierSwallowed ==
  /\ outcome # "CalledProcessError in justtestingdotemail"
  /\ pc \in {"idle", "conf", "kick_nsd", "tables", "kick_opendkim"} =>
       \A d \in AllDomains :
         ZoneWritten(d) => \E i \in 1..Len(updated_domains) : updated_domains[i] = d

\* ------------------------------------------------------------ C12
\* C12: with no /etc/nsd/nsd.conf on the disk write_nsd_conf does not fail: it
\* writes the file and reports a change, so the run returns with nsd restarted.
C12_FirstConf ==
  /\ outcome # "FileNotFoundError in write_nsd_conf"
  /\ (~nsdConf0.exists /\ pc \in {"kick_nsd", "tables", "kick_opendkim"}) =>
       ConfWritten /\ nsdConf.exists
  /\ (~nsdConf0.exists /\ Returned) => Count("service nsd restart") = 1


\* ------------------------------------------------------------ C13
FailedRestart(op) == \E i \in 1..Len(log) : log[i].op = op /\ log[i].arg # "exit 0"

\* C13: a failure of a restart command (nsd or opendkim) reaches the caller of
\* do_dns_update as an error: a run in which a restart failed does not return
\* its status string.
C13_ReloadFailurePropagates ==
  (FailedRestart("service nsd restart") \/ FailedRestart("service opendkim restart")) =>
    ~Returned


\* ------------------------------------------------------------ C14
\* a zone file's text with every serial line turned into the template's line
Normalized(file) ==
  [i \in 1..Len(file.text) |->
     IF file.text[i].k = "serial" THEN PlaceholderLine(StdGap) ELSE file.text[i]]

\* C14: when the zone file as found, its serial replaced by the placeholder, is the
\* new render, write_nsd_zone returns False and leaves the file as it is, serial
\* included, whatever the date; and it returns True only when it has written the
\* file (False leaves the file alone).
C14_UnchangedZone ==
  \A d \in AllDomains :
    ZoneTurned(d) =>
      /\ (HasSerial(zones0[d]) /\ Normalized(zones0[d]) = render_zone(d, records[d])) =>
           (~ZoneWritten(d) /\ zones[d] = zones0[d])
      /\ ZoneWritten(d) => zones[d] # zones0[d]
      /\ ~ZoneWritten(d) => zones[d] = zones0[d]

\* write_nsd_zone has left alone a zone file whose serial is older than today's
C14_Witness ==
  \E d \in AllDomains :
    /\ ZoneTurned(d) /\ ~ZoneWritten(d)
    /\ Len(SerialOf(zones0[d])) = 10
    /\ NumGT(int(today \o <<0, 0>>), int(SerialOf(zones0[d])))
    /\ zones[d] = zones0[d]

\* ------------------------------------------------------------ C15
\* C15: when the zone file is missing, or is there without a recognizable serial
\* line, write_nsd_zone writes the new render with today's YYYYMMDD00 as its
\* serial and returns True.
C15_FreshZone ==
  \A d \in AllDomains :
    (ZoneTurned(d) /\ ~HasSerial(zones0[d])) =>
      /\ ZoneWritten(d)
      /\ zones[d].exists
      /\ SerialOf(zones[d]) = today \o <<0, 0>>
      /\ Normalized(zones[d]) = render_zone(d, records[d])

\* write_nsd_zone has overwritten a file that held no serial line
C15_Witness ==
  \E d \in AllDomains :
    /\ ZoneTurned(d) /\ zones0[d].exists /\ ~HasSerial(zones0[d])
    /\ ZoneWritten(d) /\ HasSerial(zones[d])


\* ------------------------------------------------------------ C16
\* the place of an operation in do_dns_update
Rank(op) ==
  CASE op = "makedirs"                 -> 0
    [] op = "write_nsd_zone"           -> 1
    [] op = "write_nsd_conf"           -> 2
    [] op = "service nsd restart"      -> 3
    [] op = "write_opendkim_tables"    -> 4
    [] op = "service opendkim restart" -> 5

\* C16: a run takes its steps in one fixed order and none twice: the zone
\* directory is ensured once, before any zone file is written; every zone write
\* (one per domain) comes before the nsd.conf write; the nsd restart, if any,
\* comes after it and before the OpenDKIM tables; the opendkim restart is last.
C16_StepOrder ==
  /\ runs > 0 => (log # <<>> /\ log[1].op = "makedirs")
  /\ \A i, j \in 1..Len(log) :
       i < j =>
         /\ Rank(log[i].op) <= Rank(log[j].op)
         /\ Rank(log[i].op) = Rank(log[j].op) =>
              (log[i].op = "write_nsd_zone" /\ log[i].arg # log[j].arg)
  /\ Returned =>
       /\ log[Len(log)].op = "service opendkim restart"
       /\ Count("write_nsd_conf") = 1
       /\ Count("write_opendkim_tables") = 1
       /\ \A k \in 1..Len(zonefiles) : ZoneTurned(zonefiles[k][1])

\* a run has returned after all six kinds of step, with two zone files
C16_Witness ==
  /\ Returned
  /\ Len(log) = 7
  /\ Count("write_nsd_zone") = 2
  /\ Count("service nsd restart") = 1


\* ------------------------------------------------------------ C17
\* the domains of the current (or last) run
RunDomains == { zonefiles[k][1] : k \in 1..Len(zonefiles) }

\* C17: a zone file whose domain is not in the run's domain set is neither
\* deleted nor modified by the run: at every point it is the file the run found
\* (so, run after run, the file of a removed domain stays what the last run that
\* included the domain left).
C17_StaleZoneKept ==
  \A d \in AllDomains \ RunDomains : zones[d] = zones0[d]

\* a run without box.justtesting.email has returned, and the zone file an
\* earlier run wrote for that domain on 2024-06-02 is on the disk
C17_Witness ==
  /\ Returned
  /\ "box.justtesting.email" \notin RunDomains
  /\ SerialOf(zones["box.justtesting.email"]) = Day2 \o <<0, 0>>


\* ------------------------------------------------------------ C18
\* C18: no restart of nsd is lost: over any runs, aborted ones among them, a zone
\* file written to the disk is followed by an nsd restart in the same run or, at
\* the latest, in the next run that returns; so no run returns leaving on the disk
\* a zone file written since nsd was last restarted.
C18_NoLostReload ==
  Returned => ~unloaded

\* ------------------------------------------------------------ C19
\* the lines of a zone file that the serial pattern recognizes
SerialLines(file) == { i \in 1..Len(file.text) : file.text[i].k = "serial" }

\* C19: when do_dns_update has returned, the zone file of every domain of the run
\* is on the disk and up to date: with its serial replaced by the placeholder it
\* is the render of the SOA template and the domain's records in order, and it
\* holds exactly one serial line, whatever the file held before the run.
C19_ZonesUpToDate ==
  Returned =>
    \A d \in RunDomains :
      /\ zones[d].exists
      /\ Normalized(zones[d]) = render_zone(d, records[d])
      /\ Cardinality(SerialLines(zones[d])) = 1

\* a run has returned after replacing a zone file that held a serial and other
\* records, and after creating another domain's zone file
C19_Witness ==
  /\ Returned
  /\ \E d \in RunDomains :
       /\ HasSerial(zones0[d]) /\ Normalized(zones0[d]) # render_zone(d, records[d])
       /\ ZoneWritten(d)
  /\ \E d \in RunDomains : ~zones0[d].exists

====
